---- MODULE Spec2Model ----
(***************************************************************************)
(* Accountability agent: the daily-record store (app/models/daily_log.py), *)
(* the verification engine (app/services/verification_service.py) and the  *)
(* check-in dispatch (cron/send_daily_checkins.py), as a state machine.    *)
(*                                                                         *)
(* Spec is the deployed system: two externally scheduled jobs that share   *)
(* the daily_logs table, each with its own database session, the batch     *)
(* verifier (verify_all_users) and the check-in job.  ApiSpec is the       *)
(* per-user entry point verify_user_day called on its own with any user,   *)
(* date and threshold.  A step of a process is one database statement      *)
(* together with the session-local and external (GitHub, e-mail) work      *)
(* that precedes it.                                                       *)
(*                                                                         *)
(* CronSpec is the two jobs from their cron entry points (the weekday      *)
(* guard) under a clock, CheckinSpec the check-in job alone with a commit  *)
(* that may fail, ScanSpec the loop of the pull-request and issue scans    *)
(* over one list.  TimeSpec, AggSpec and ReplySpec are the time utilities, *)
(* the activity aggregation and the reply webhook.                         *)
(*                                                                         *)
(* NULL columns are the empty sequence, a set column is a one-element      *)
(* sequence.  Calendar dates are day numbers, read from the environment    *)
(* (get_current_date); a timestamp column is NULL or set, its instant is   *)
(* not recorded.                                                           *)
(***************************************************************************)
EXTENDS Integers, Sequences, FiniteSets, Bags, TLC

\* ------------------------------------------------------------------ bounds
NumUsers == 2
MaxDay == 1
MaxActivity == 1
MaxMinCommits == 1
NumRepos == 1

\* ------------------------------------------------------- program constants
\* verify_user_day(..., min_commits: int = 1)
DefaultMinCommits == 1

Users == 1..NumUsers
Days == 1..MaxDay

None == <<>>
Some(v) == <<v>>
IsSet(o) == o # <<>>
Val(o) == o[1]

\* datetime.now(...), as stored in a timestamp column.
Stamp == Some("now")

\* Repository full names, as numbers in their lexicographic order.
Repos == 1..NumRepos

VARIABLES
    active,     \* users.is_active, per user
    logs,       \* the daily_logs table: row id = position
    vpc,        \* verifier: position
    vMode,      \* verifier: "batch" (verify_all_users) or "direct" (verify_user_day)
    vUser,      \* verifier: user of a direct call
    vIdx,       \* verifier: index of the batch loop in the list of active users
    vDate,      \* verifier: target_date
    vMin,       \* verifier: min_commits of the running verify_user_day
    vLog,       \* verifier: id of the daily_log held by the session (0: none)
    vObj,       \* verifier: the attributes of that daily_log as the session loaded them
    vPrev,      \* history: the row as it was when the verifier's last commit replaced it
    vBroken,    \* verifier: session's transaction is invalid until rollback()
    vResult,    \* verifier: last value returned by verify_user_day
    results,    \* verifier: verify_all_users' results dictionary
    verifyLog,  \* history: per user of the running batch, what verification and notification did
    lastRun,    \* history: per (user, date), the latest verification run that committed
    gocReturned,\* history: <<user, date, id>> of every get_or_create call that returned
    cpc,        \* check-in job: position
    cIdx,       \* check-in job: index of the loop in the list of active users
    cDate,      \* check-in job: user_today of the user being processed
    cLog,       \* check-in job: id of the daily_log held by the session (0: none)
    cBroken,    \* check-in job: session's transaction is invalid until rollback()
    cResults,   \* check-in job: results dictionary
    clock,      \* the instant the server's clock shows
    mails,      \* history: bag of <<user, date>>, one copy per check-in e-mail delivered
    tpc,        \* time utilities: position of the caller
    tIn,        \* time utilities: the arguments, the clock and settings.timezone of the call
    tOut,       \* time utilities: what the functions returned
    gpc,        \* aggregation: position in get_daily_activity
    gIn,        \* aggregation: target_date, the user's time_zone and settings.timezone
    gKind,      \* aggregation: the scan running (1 commits, 2 pull requests, 3 issues)
    gRepos,     \* aggregation: repos of the running scan (get_user_repos)
    gIdx,       \* aggregation: position of the scan's loop in repos
    gWindow,    \* aggregation: <<start_dt, end_dt>> of the running scan
    gLists,     \* aggregation: <<commits_data, prs_data, issues_data>>
    gHist,      \* history: kind, repository and outcome of every per-repository fetch
    gOut,       \* aggregation: the activity_data returned
    rpc,        \* reply webhook: position in handle_email_reply
    rPayload,   \* reply webhook: from address, text and html of the request
    rUser,      \* reply webhook: the user get_by_email returned (0: None)
    rStatus,    \* reply webhook: HTTP status of the response (0: none yet)
    spc,        \* item scan: position of the caller
    sIn,        \* item scan: the list the API returns, target_date and settings.timezone
    sOut        \* item scan: the items collected

vars == <<active, logs, vpc, vMode, vUser, vIdx, vDate, vMin, vLog, vObj, vPrev, vBroken,
          vResult, results, verifyLog, lastRun, gocReturned,
          cpc, cIdx, cDate, cLog, cBroken, cResults, clock, mails, tpc, tIn, tOut,
          gpc, gIn, gKind, gRepos, gIdx, gWindow, gLists, gHist, gOut,
          rpc, rPayload, rUser, rStatus, spc, sIn, sOut>>

timeVars == <<tpc, tIn, tOut>>

aggVars == <<gpc, gIn, gKind, gRepos, gIdx, gWindow, gLists, gHist, gOut>>

replyVars == <<rpc, rPayload, rUser, rStatus>>

scanVars == <<spc, sIn, sOut>>

\* What neither the verifier nor the check-in job writes.
storeVars == <<active, clock, timeVars, aggVars, replyVars, scanVars>>
vVars == <<vpc, vMode, vUser, vIdx, vDate, vMin, vLog, vObj, vPrev, vBroken, vResult,
          results, verifyLog>>
cVars == <<cpc, cIdx, cDate, cLog, cBroken, cResults, mails>>

\* What the verifier, the check-in job and the daily_logs table hold.
jobVars == <<logs, lastRun, gocReturned, vVars, cVars>>

\* ------------------------------------------------------------ daily_logs rows
\* DailyLog(user_id=..., log_date=...): every other column at its default.
NewLog(u, d) ==
    [user_id |-> u, log_date |-> d,
     checkin_sent_at |-> None,
     user_response |-> None, user_responded_at |-> None,
     verification_completed_at |-> None,
     commits_count |-> 0, prs_count |-> 0, issues_count |-> 0,
     verification_passed |-> None,
     verification_details |-> None,
     summary_sent_at |-> None]

\* The table without its uniqueness constraint: no INSERT is refused.
UniqueViolationOff(u, d) == FALSE

\* UniqueConstraint('user_id', 'log_date'): an INSERT of (u, d) is refused.
UniqueViolation(u, d) ==
    \E i \in 1..Len(logs) : logs[i].user_id = u /\ logs[i].log_date = d

\* Ids of the rows the filter user_id == u, log_date == d selects.
Matching(u, d) ==
    {i \in 1..Len(logs) : logs[i].user_id = u /\ logs[i].log_date = d}

\* db.query(cls).filter(...).first(): the id of the first matching row, 0 for None.
get_by_date(u, d) ==
    IF Matching(u, d) = {} THEN 0
    ELSE CHOOSE i \in Matching(u, d) : \A j \in Matching(u, d) : i <= j

\* User.get_active_users: the active users, in id order.
RECURSIVE ActiveFrom(_)
ActiveFrom(u) ==
    IF u > NumUsers THEN <<>>
    ELSE (IF active[u] THEN <<u>> ELSE <<>>) \o ActiveFrom(u + 1)

\* A list that holds every user, whatever its is_active flag.
AllUsers == [i \in 1..NumUsers |-> i]

get_active_users == ActiveFrom(1)

\* ------------------------------------------------------- activity snapshot
Items == {[repository |-> r] : r \in Repos}

\* sorted(list(repos)) of a set of repository names.
RECURSIVE SortedList(_)
SortedList(S) ==
    IF S = {} THEN <<>>
    ELSE LET m == CHOOSE x \in S : \A y \in S : x <= y
         IN  <<m>> \o SortedList(S \ {m})

\* A repository set taken from the first item alone.
RepositoriesOfFirst(items) == IF items = <<>> THEN {} ELSE {items[1].repository}

\* get_daily_activity, lines 311-317: the repository names of a list of items.
RepositoriesOf(items) == {items[i].repository : i \in 1..Len(items)}

RECURSIVE SeqsUpTo(_, _)
SeqsUpTo(S, n) ==
    IF n = 0 THEN {<<>>}
    ELSE LET shorter == SeqsUpTo(S, n - 1)
         IN  shorter \cup {Append(q, x) : q \in {r \in shorter : Len(r) = n - 1}, x \in S}

ItemLists == SeqsUpTo(Items, MaxActivity)

\* What the three per-kind scans of one day can return.
Fetched ==
    {f \in [commits : ItemLists, prs : ItemLists, issues : ItemLists] :
        Len(f.commits) + Len(f.prs) + Len(f.issues) <= MaxActivity}

\* An aggregation whose pull-request count is taken from the commit list.
get_daily_activity_miscounted(target_date, commits, prs, issues) ==
    [date |-> target_date,
     commits |-> commits,
     commits_count |-> Len(commits),
     pull_requests |-> prs,
     prs_count |-> Len(commits),
     issues |-> issues,
     issues_count |-> Len(issues),
     repositories |->
        SortedList(RepositoriesOf(commits) \cup RepositoriesOf(prs) \cup RepositoriesOf(issues)),
     total_activity |-> Len(commits) + Len(prs) + Len(issues)]

\* GitHubService.get_daily_activity: the activity_data dictionary.
get_daily_activity(target_date, commits, prs, issues) ==
    [date |-> target_date,
     commits |-> commits,
     commits_count |-> Len(commits),
     pull_requests |-> prs,
     prs_count |-> Len(prs),
     issues |-> issues,
     issues_count |-> Len(issues),
     repositories |->
        SortedList(RepositoriesOf(commits) \cup RepositoriesOf(prs) \cup RepositoriesOf(issues)),
     total_activity |-> Len(commits) + Len(prs) + Len(issues)]

\* ------------------------------------------------------------ result values
\* VerificationService._create_error_result
create_error_result(error_message) ==
    [success |-> FALSE, passed |-> FALSE, error |-> Some(error_message),
     commits_count |-> 0, prs_count |-> 0, issues_count |-> 0,
     total_activity |-> 0, details |-> None]

\* The result dictionary of a completed verify_user_day.
success_result(passed, activity) ==
    [success |-> TRUE, passed |-> passed, error |-> None,
     commits_count |-> activity.commits_count,
     prs_count |-> activity.prs_count,
     issues_count |-> activity.issues_count,
     total_activity |-> activity.total_activity,
     details |-> Some(activity)]

NoResult == create_error_result("not run")

\* verify_all_users: results at the start of the loop.
InitialResults(target_date, n) ==
    [date |-> target_date, total_users |-> n, successful |-> 0, failed |-> 0,
     passed |-> 0, not_passed |-> 0, user_results |-> <<>>]

\* ------------------------------------------------------------ time utilities
\* An instant is a number of hours since 0001-01-01 00:00 UTC; a date is its
\* proleptic ordinal (date.toordinal()), day 1 being 0001-01-01.  A zone is its
\* name; the zones of the model keep one UTC offset over the days of the model.
HoursPerDay == 24

\* date(2024, 1, 13).toordinal() and date(2024, 1, 15).toordinal()
Saturday20240113 == 738898
Monday20240115 == 738900

\* The dates a caller passes, and the days the clock runs over.
MaxDayOffset == 8
MaxNowDay == 1

TimeDays == Saturday20240113..(Saturday20240113 + MaxDayOffset)
Instants ==
    {d * HoursPerDay + h : d \in Saturday20240113..(Saturday20240113 + MaxNowDay),
                           h \in 0..(HoursPerDay - 1)}

\* The zones pytz knows, of the model, and names it does not know.
KnownZones == {"UTC", "Africa/Douala", "America/New_York", "Asia/Tokyo"}
UnknownZones == {"Mars/Olympus"}
NoName == "None"
TzNames == KnownZones \cup UnknownZones

\* utcoffset() of a zone, in hours.
UtcOffset(tz) ==
    CASE tz = "Africa/Douala" -> 1
      [] tz = "America/New_York" -> 0 - 5
      [] tz = "Asia/Tokyo" -> 9
      [] OTHER -> 0

\* The value of a call that raised pytz.UnknownTimeZoneError.
UnknownTimeZoneError == "UnknownTimeZoneError"

\* pytz.timezone(name)
pytz_timezone(tz_name) == IF tz_name \in KnownZones THEN tz_name ELSE UnknownTimeZoneError

\* A get_timezone without the fallback: the error of pytz reaches the caller.
get_timezone_unguarded(tz_name, settings_timezone) ==
    pytz_timezone(IF tz_name = NoName THEN settings_timezone ELSE tz_name)

\* get_timezone, lines 34-41.
get_timezone(tz_name, settings_timezone) ==
    LET name == IF tz_name = NoName THEN settings_timezone ELSE tz_name
    IN  IF pytz_timezone(name) = UnknownTimeZoneError THEN "UTC" ELSE pytz_timezone(name)

\* get_current_date: datetime.now(tz).date(), the clock reading `now`.
get_current_date(tz_name, settings_timezone, now) ==
    (now + UtcOffset(get_timezone(tz_name, settings_timezone))) \div HoursPerDay

\* date.weekday(): 0 is Monday, 6 is Sunday.
weekday(d) == (d + 6) % 7

\* An is_weekday that takes Saturday for a working day.
is_weekday_with_saturday(check_date, tz_name, settings_timezone, now) ==
    LET d == IF check_date = None
             THEN get_current_date(tz_name, settings_timezone, now)
             ELSE Val(check_date)
    IN  weekday(d) <= 5

\* is_weekday, lines 101-105.
is_weekday(check_date, tz_name, settings_timezone, now) ==
    LET d == IF check_date = None
             THEN get_current_date(tz_name, settings_timezone, now)
             ELSE Val(check_date)
    IN  weekday(d) < 5

\* tz.localize(naive): the instant at which the zone's wall clock shows `naive`.
localize(naive, tz) == naive - UtcOffset(tz)

\* get_start_of_day, lines 145-150: 00:00 of the date, in the zone.
get_start_of_day(target_date, tz_name, settings_timezone, now) ==
    LET d == IF target_date = None
             THEN get_current_date(tz_name, settings_timezone, now)
             ELSE Val(target_date)
    IN  localize(d * HoursPerDay, get_timezone(tz_name, settings_timezone))

\* get_end_of_day, lines 167-172: the last hour (23:59:59.999999) of the date.
get_end_of_day(target_date, tz_name, settings_timezone, now) ==
    LET d == IF target_date = None
             THEN get_current_date(tz_name, settings_timezone, now)
             ELSE Val(target_date)
    IN  localize(d * HoursPerDay + (HoursPerDay - 1),
                 get_timezone(tz_name, settings_timezone))

NoTimeIn == [check_date |-> None, tz_name |-> NoName, settings_timezone |-> "UTC", now |-> 0]
NoTimeOut == [tz |-> "UTC", current_date |-> 0, is_weekday |-> FALSE, start |-> 0, end |-> 0]

\* A caller of the time utilities: a date or None, a zone name or None, under a
\* configured default zone (settings.timezone) and a clock.
T_Call ==
    /\ tpc = "idle"
    /\ \E check_date \in {None} \cup {Some(d) : d \in TimeDays},
          tz_name \in TzNames \cup {NoName},
          settings_timezone \in {"America/New_York", "Mars/Olympus"},
          now \in Instants :
          tIn' = [check_date |-> check_date, tz_name |-> tz_name,
                  settings_timezone |-> settings_timezone, now |-> now]
    /\ tpc' = "called"
    /\ UNCHANGED tOut
    /\ UNCHANGED <<active, clock, aggVars, replyVars, scanVars>>
    /\ UNCHANGED jobVars

\* The functions return.
T_Return ==
    /\ tpc = "called"
    /\ tOut' = [tz |-> get_timezone(tIn.tz_name, tIn.settings_timezone),
                current_date |-> get_current_date(tIn.tz_name, tIn.settings_timezone, tIn.now),
                is_weekday |-> is_weekday(tIn.check_date, tIn.tz_name,
                                          tIn.settings_timezone, tIn.now),
                start |-> get_start_of_day(tIn.check_date, tIn.tz_name,
                                           tIn.settings_timezone, tIn.now),
                end |-> get_end_of_day(tIn.check_date, tIn.tz_name,
                                       tIn.settings_timezone, tIn.now)]
    /\ tpc' = "returned"
    /\ UNCHANGED tIn
    /\ UNCHANGED <<active, clock, aggVars, replyVars, scanVars>>
    /\ UNCHANGED jobVars

\* The cron jobs.  settings.timezone (config.py): the configured default zone.
SettingsTimezone == "America/New_York"

\* The readings of the clock, in order: Friday 2024-01-12 14:00 UTC, Saturday
\* 2024-01-13 12:00 UTC and Monday 2024-01-15 02:00 UTC, which is Sunday evening
\* in America/New_York.
FirstInstant == (Saturday20240113 - 1) * HoursPerDay + 14
CronInstants ==
    {FirstInstant,
     Saturday20240113 * HoursPerDay + 12,
     Monday20240115 * HoursPerDay + 2}

\* get_current_date() at those readings.
CronDays == {get_current_date(NoName, SettingsTimezone, now) : now \in CronInstants}

\* A guard that rests on Sundays only.
SkipsOnSundayOnly(today) == weekday(today) = 6

\* send_daily_checkins line 38 and verify_daily_work line 35: not is_weekday(today).
SkipsToday(today) == ~is_weekday(Some(today), NoName, SettingsTimezone, 0)

\* ------------------------------------------------- the activity aggregation
\* GitHubService.get_daily_activity with its three scans, one step per
\* repository of a scan.  The repositories of the authenticated user:
NumAggRepos == 2
AggRepos == 1..NumAggRepos

\* The most items one fetch of one repository matches.
MaxFetch == 1

\* The n items a fetch in repository r appends.
ItemsOf(r, n) == [i \in 1..n |-> [repository |-> r]]

\* The orders in which get_user_repos lists the repositories (sort="updated"), and
\* the empty list it returns on a GithubException.
RepoLists ==
    {<<>>} \cup {q \in [1..NumAggRepos -> AggRepos] : \A i, j \in 1..NumAggRepos :
                                                        q[i] = q[j] => i = j}

\* The dates and zones of the calls of the model.
AggDates == {Monday20240115}
UserZones == {"Africa/Douala", "America/New_York"}

NoAggIn ==
    [target_date |-> 0, time_zone |-> "UTC", settings_timezone |-> "UTC"]
NoSnapshot == get_daily_activity(0, <<>>, <<>>, <<>>)

\* get_daily_activity(target_date, username) is called for a user.
G_Start ==
    /\ gpc = "idle"
    /\ \E d \in AggDates, z \in UserZones, dz \in UserZones :
          gIn' = [target_date |-> d, time_zone |-> z, settings_timezone |-> dz]
    /\ gKind' = 1
    /\ gLists' = <<<<>>, <<>>, <<>>>>
    /\ gHist' = {}
    /\ gpc' = "scan"
    /\ UNCHANGED <<gRepos, gIdx, gWindow, gOut>>
    /\ UNCHANGED <<active, clock, timeVars, replyVars, scanVars>>
    /\ UNCHANGED jobVars

\* get_commits_for_date / get_pull_requests_for_date / get_issues_for_date, lines
\* 115-119, 169-173, 236-240: the window of the day, get_start_of_day(target_date)
\* and get_end_of_day(target_date) called without a zone, and the repositories.
\* After the last scan the snapshot is built.
G_Scan ==
    /\ gpc = "scan"
    /\ gWindow' = <<get_start_of_day(Some(gIn.target_date), NoName, gIn.settings_timezone, 0),
                    get_end_of_day(Some(gIn.target_date), NoName, gIn.settings_timezone, 0)>>
    /\ \E repos \in RepoLists :
          /\ gRepos' = repos
          /\ gIdx' = 1
          /\ IF Len(repos) >= 1
             THEN gpc' = "fetch" /\ gKind' = gKind
             ELSE IF gKind < 3
                  THEN gpc' = "scan" /\ gKind' = gKind + 1
                  ELSE gpc' = "merge" /\ gKind' = gKind
    /\ UNCHANGED <<gIn, gLists, gHist, gOut>>
    /\ UNCHANGED <<active, clock, timeVars, replyVars, scanVars>>
    /\ UNCHANGED jobVars

\* Control after the repository at gIdx: the next repository, the next scan, or
\* the end of the third scan.
G_Advance ==
    /\ gIdx' = gIdx + 1
    /\ IF gIdx + 1 <= Len(gRepos)
       THEN gpc' = "fetch" /\ gKind' = gKind
       ELSE IF gKind < 3
            THEN gpc' = "scan" /\ gKind' = gKind + 1
            ELSE gpc' = "merge" /\ gKind' = gKind

\* One pass of the loop body, lines 124-142, 178-209, 245-280: the fetch of the
\* repository returned and its n matching items were appended.
G_FetchOk ==
    /\ gpc = "fetch"
    /\ \E n \in 0..MaxFetch :
          /\ gLists' = [gLists EXCEPT ![gKind] = @ \o ItemsOf(gRepos[gIdx], n)]
          /\ gHist' = gHist \cup {[kind |-> gKind, repository |-> gRepos[gIdx],
                                    raised |-> "no", matched |-> n]}
    /\ G_Advance
    /\ UNCHANGED <<gIn, gRepos, gWindow, gOut>>
    /\ UNCHANGED <<active, clock, timeVars, replyVars, scanVars>>
    /\ UNCHANGED jobVars

\* Lines 144-146, 211-213, 282-284: the fetch raised a GithubException, which is
\* logged; the loop continues.
G_FetchGithubException ==
    /\ gpc = "fetch"
    /\ gHist' = gHist \cup {[kind |-> gKind, repository |-> gRepos[gIdx],
                              raised |-> "GithubException", matched |-> 0]}
    /\ G_Advance
    /\ UNCHANGED <<gIn, gRepos, gWindow, gLists, gOut>>
    /\ UNCHANGED <<active, clock, timeVars, replyVars, scanVars>>
    /\ UNCHANGED jobVars

\* The fetch raised an exception that is not a GithubException (a connection
\* error or a timeout of the HTTP layer): no except clause of the scans matches,
\* and the exception leaves get_daily_activity.
G_FetchRaised ==
    /\ gpc = "fetch"
    /\ gHist' = gHist \cup {[kind |-> gKind, repository |-> gRepos[gIdx],
                              raised |-> "Exception", matched |-> 0]}
    /\ gpc' = "raised"
    /\ UNCHANGED <<gIn, gKind, gRepos, gIdx, gWindow, gLists, gOut>>
    /\ UNCHANGED <<active, clock, timeVars, replyVars, scanVars>>
    /\ UNCHANGED jobVars

\* get_daily_activity, lines 310-337: the snapshot is built and returned.
G_Return ==
    /\ gpc = "merge"
    /\ gOut' = get_daily_activity(gIn.target_date, gLists[1], gLists[2], gLists[3])
    /\ gpc' = "returned"
    /\ UNCHANGED <<gIn, gKind, gRepos, gIdx, gWindow, gLists, gHist>>
    /\ UNCHANGED <<active, clock, timeVars, replyVars, scanVars>>
    /\ UNCHANGED jobVars

\* ------------------------------------------------------- the reply webhook
\* handle_email_reply.  An e-mail address is a number: user u has address u
\* (users.email is unique), and one more address belongs to no user.
EmailOf(u) == u
StrangerAddress == NumUsers + 1
Addresses == {EmailOf(u) : u \in Users} \cup {StrangerAddress}

\* Bodies of a request: payload.get("text", ""), payload.get("html", "").
Texts == {"", "  ", "done"}
Htmls == {"", "<p>done</p>"}

Payloads == [from : {None} \cup {Some(a) : a \in Addresses}, text : Texts, html : Htmls]
NoPayload == [from |-> None, text |-> "", html |-> ""]

\* Line 83: the text content, the HTML content when there is no text.
user_response(payload) == IF payload.text # "" THEN payload.text ELSE payload.html

\* str.strip(), line 111, on the bodies of the model.
strip(s) == IF s = "  " THEN "" ELSE s

\* A validation that looks at the sender alone.
MissingFromOnly(payload) == payload.from = None

\* Line 85: not from_email or not user_response.
MissingFromOrContent(payload) == payload.from = None \/ user_response(payload) = ""

\* A lookup that returns the first user of the table, whatever the address.
get_by_email_unfiltered(email) == 1

\* User.get_by_email: the first user whose email is the address, 0 for None.  The
\* query filters on the address alone; is_active is not read.
get_by_email(email) ==
    IF \E u \in Users : EmailOf(u) = email
    THEN CHOOSE u \in Users : EmailOf(u) = email /\ \A w \in Users : EmailOf(w) = email => u <= w
    ELSE 0

\* The webhook is called: lines 71-102.  A request without a sender or without
\* content is answered 400, one whose sender get_by_email does not find 404.
R_Receive ==
    /\ rpc \in {"idle", "responded"}
    /\ \E payload \in Payloads :
          /\ rPayload' = payload
          /\ IF MissingFromOrContent(payload)
             THEN rStatus' = 400 /\ rUser' = 0 /\ rpc' = "responded"
             ELSE IF get_by_email(Val(payload.from)) = 0
                  THEN rStatus' = 404 /\ rUser' = 0 /\ rpc' = "responded"
                  ELSE /\ rStatus' = 0
                       /\ rUser' = get_by_email(Val(payload.from))
                       /\ rpc' = "resolved"
    /\ UNCHANGED <<active, clock, timeVars, aggVars, scanVars>>
    /\ UNCHANGED jobVars

\* Line 105, get_current_date(user.timezone): User has the column time_zone and no
\* attribute timezone, so the expression raises AttributeError, which lines 132-137
\* turn into the response 500.  Lines 108-128 (get_or_create, the assignments of
\* user_response and user_responded_at, the commit and the success response) are
\* never reached.
R_Today ==
    /\ rpc = "resolved"
    /\ rStatus' = 500
    /\ rpc' = "responded"
    /\ UNCHANGED <<rPayload, rUser>>
    /\ UNCHANGED <<active, clock, timeVars, aggVars, scanVars>>
    /\ UNCHANGED jobVars

\* ------------------------------------------- the pull-request and issue scans
\* The loop of get_pull_requests_for_date and get_issues_for_date over one list
\* the API returns (one repository, one state), sorted by updated_at, newest first.
\* created_at and updated_at are UTC instants; datetime.date() is their UTC date.
MaxScanLen == 2

ScanDates == {Monday20240115}

\* Hours before and after 00:00 UTC of the target date.
ScanOffsets == {0 - 3, 1, 3, 6}
ScanInstants == {d * HoursPerDay + h : d \in ScanDates, h \in ScanOffsets}

ScanKinds == {"pulls", "issues"}

\* An item of the list: by_user is pr.user.login == username, pull_request is
\* issue.pull_request is not None.
ScanItems ==
    {[created_at |-> c, updated_at |-> u, by_user |-> b, pull_request |-> p] :
        c \in ScanInstants, u \in ScanInstants, b \in BOOLEAN, p \in BOOLEAN}

\* sort="updated", direction="desc"
ScanLists ==
    {l \in SeqsUpTo({i \in ScanItems : i.created_at <= i.updated_at}, MaxScanLen) :
        \A i \in 1..(Len(l) - 1) : l[i].updated_at >= l[i + 1].updated_at}

\* datetime.date() of a UTC instant.
DateOf(t) == t \div HoursPerDay

\* github_service.py lines 189-190 and 262-263: created or updated on target_date.
OnTargetDate(item, target_date) ==
    DateOf(item.created_at) = target_date \/ DateOf(item.updated_at) = target_date

\* Lines 193 and 265: the item is collected.
Collected(kind, item, target_date) ==
    IF kind = "pulls"
    THEN item.by_user /\ OnTargetDate(item, target_date)
    ELSE ~item.pull_request /\ OnTargetDate(item, target_date)

\* Lines 187-209 and 255-280: the loop from position i on, with the break once
\* updated_at < start_dt; an issue that is a pull request is skipped by `continue`
\* before the break is reached.
RECURSIVE scan_list(_, _, _, _, _)
scan_list(kind, items, i, target_date, start_dt) ==
    IF i > Len(items) THEN <<>>
    ELSE LET item == items[i]
             found == IF Collected(kind, item, target_date) THEN <<item>> ELSE <<>>
         IN  IF kind = "issues" /\ item.pull_request
             THEN scan_list(kind, items, i + 1, target_date, start_dt)
             ELSE IF item.updated_at < start_dt
                  THEN found
                  ELSE found \o scan_list(kind, items, i + 1, target_date, start_dt)

NoScanIn == [kind |-> "pulls", items |-> <<>>, target_date |-> 0, settings_timezone |-> "UTC"]
NoScanOut == <<>>

\* A scan starts: the list the API returns, for a target date, under a configured
\* default zone.
S_Call ==
    /\ spc = "idle"
    /\ \E kind \in ScanKinds, items \in ScanLists, target_date \in ScanDates,
          settings_timezone \in {"America/New_York", "Africa/Douala", "UTC"} :
          sIn' = [kind |-> kind, items |-> items, target_date |-> target_date,
                  settings_timezone |-> settings_timezone]
    /\ spc' = "called"
    /\ UNCHANGED sOut
    /\ UNCHANGED <<active, clock, timeVars, aggVars, replyVars>>
    /\ UNCHANGED jobVars

\* The loop ends: start_dt is get_start_of_day(target_date), lines 169 and 236.
S_Return ==
    /\ spc = "called"
    /\ sOut' = scan_list(sIn.kind, sIn.items, 1, sIn.target_date,
                         get_start_of_day(Some(sIn.target_date), NoName,
                                          sIn.settings_timezone, 0))
    /\ spc' = "returned"
    /\ UNCHANGED sIn
    /\ UNCHANGED <<active, clock, timeVars, aggVars, replyVars>>
    /\ UNCHANGED jobVars

\* ------------------------------------------------------------------- Init
InitialCheckinResults(n) == [total_users |-> n, emails_sent |-> 0, errors |-> 0]

\* The session holds no daily log.
NoLog == NewLog(0, 0)

Init ==
    /\ active \in [Users -> BOOLEAN]
    /\ logs = <<>>
    /\ vpc = "idle" /\ vMode = "batch" /\ vUser = 1 /\ vIdx = 1 /\ vDate = 1
    /\ vMin = DefaultMinCommits /\ vLog = 0 /\ vObj = NoLog /\ vPrev = NoLog
    /\ vBroken = FALSE
    /\ vResult = NoResult
    /\ results = InitialResults(1, 0)
    /\ verifyLog = <<>>
    /\ lastRun = [k \in Users \X (Days \cup CronDays) |-> None]
    /\ gocReturned = {}
    /\ cpc = "idle" /\ cIdx = 1 /\ cDate = 1 /\ cLog = 0 /\ cBroken = FALSE
    /\ cResults = InitialCheckinResults(0)
    /\ clock = FirstInstant /\ mails = EmptyBag
    /\ tpc = "idle" /\ tIn = NoTimeIn /\ tOut = NoTimeOut
    /\ gpc = "idle" /\ gIn = NoAggIn /\ gKind = 1 /\ gRepos = <<>> /\ gIdx = 1
    /\ gWindow = <<0, 0>> /\ gLists = <<<<>>, <<>>, <<>>>> /\ gHist = {} /\ gOut = NoSnapshot
    /\ rpc = "idle" /\ rPayload = NoPayload /\ rUser = 0 /\ rStatus = 0
    /\ spc = "idle" /\ sIn = NoScanIn /\ sOut = NoScanOut

\* ------------------------------------------------------------- the verifier
\* The user verify_user_day is running for.
CurUser == IF vMode = "batch" THEN get_active_users[vIdx] ELSE vUser

\* No call of the verifier is running.
VerifierIdle ==
    vpc \in {"idle", "done", "skipped"} \/ (vpc \in {"returned", "raised"} /\ vMode = "direct")

\* Counters that never count a failure.
TallyWithoutFailed(res, u, d, success) ==
    LET id == get_by_date(u, d)
        log_passed == id # 0 /\ logs[id].verification_passed = Some(TRUE)
    IN  [res EXCEPT
            !.successful = IF success THEN @ + 1 ELSE @,
            !.passed = IF success /\ log_passed THEN @ + 1 ELSE @,
            !.not_passed = IF success /\ ~log_passed THEN @ + 1 ELSE @,
            !.user_results = Append(@, [user_email |-> u, success |-> success, error |-> None])]

\* verify_all_users, lines 213-228: the counters after verify_and_notify returned
\* `success`; passed is read from the daily log of (u, d).
Tally(res, u, d, success) ==
    LET id == get_by_date(u, d)
        log_passed == id # 0 /\ logs[id].verification_passed = Some(TRUE)
    IN  [res EXCEPT
            !.successful = IF success THEN @ + 1 ELSE @,
            !.passed = IF success /\ log_passed THEN @ + 1 ELSE @,
            !.not_passed = IF success /\ ~log_passed THEN @ + 1 ELSE @,
            !.failed = IF success THEN @ ELSE @ + 1,
            !.user_results = Append(@, [user_email |-> u, success |-> success, error |-> None])]

\* An except branch that reports the user without counting the failure.
TallyExceptionUncounted(res, u) ==
    [res EXCEPT
        !.user_results = Append(@, [user_email |-> u, success |-> FALSE,
                                    error |-> Some("exception")])]

\* verify_all_users, lines 230-237: the except branch.
TallyException(res, u) ==
    [res EXCEPT
        !.failed = @ + 1,
        !.user_results = Append(@, [user_email |-> u, success |-> FALSE,
                                    error |-> Some("exception")])]

\* Control after verify_and_notify has returned or raised for the user at vIdx: the
\* next user of the list, or the return of verify_all_users, after which the
\* session is closed (get_db_context).  `broken`: the session needs a rollback().
V_Advance(broken) ==
    /\ vIdx' = vIdx + 1
    /\ vLog' = 0
    /\ vObj' = NoLog
    /\ vPrev' = NoLog
    /\ vResult' = NoResult
    /\ vpc' = IF vIdx + 1 <= Len(get_active_users) THEN "query" ELSE "done"
    /\ vBroken' = IF vIdx + 1 <= Len(get_active_users) THEN broken ELSE FALSE

\* verify_user_day returns the error result r; lines 119-122 have rolled the
\* session back where an exception was caught.
V_Failed(r) ==
    /\ vResult' = r
    /\ vpc' = "returned"
    /\ vBroken' = FALSE
    /\ UNCHANGED <<vMode, vUser, vIdx, vDate, vMin, vLog, vObj, vPrev, results, verifyLog>>

\* verify_all_users(target_date): lines 191-207.
V_StartBatch ==
    /\ VerifierIdle
    /\ vMode' = "batch"
    /\ \E d \in Days :
          /\ vDate' = d
          /\ results' = InitialResults(d, Len(get_active_users))
    /\ vUser' = 1
    /\ vMin' = DefaultMinCommits
    /\ vIdx' = 1
    /\ vLog' = 0
    /\ vObj' = NoLog
    /\ vPrev' = NoLog
    /\ vBroken' = FALSE
    /\ vResult' = NoResult
    /\ verifyLog' = <<>>
    /\ vpc' = IF Len(get_active_users) >= 1 THEN "query" ELSE "done"
    /\ UNCHANGED <<logs, lastRun, gocReturned>>
    /\ UNCHANGED storeVars
    /\ UNCHANGED cVars

\* verify_user_day(user, target_date, min_commits) called on its own.
V_StartDirect ==
    /\ VerifierIdle
    /\ \E u \in Users, d \in Days, m \in 0..MaxMinCommits :
          /\ vUser' = u
          /\ vDate' = d
          /\ vMin' = m
    /\ vMode' = "direct"
    /\ vIdx' = 1
    /\ vLog' = 0
    /\ vObj' = NoLog
    /\ vPrev' = NoLog
    /\ vBroken' = FALSE
    /\ vResult' = NoResult
    /\ results' = InitialResults(1, 0)
    /\ verifyLog' = <<>>
    /\ vpc' = "query"
    /\ UNCHANGED <<logs, lastRun, gocReturned>>
    /\ UNCHANGED storeVars
    /\ UNCHANGED cVars

\* verify_user_day(user, None, min_commits): line 61 evaluates user.timezone to
\* resolve the default date.  User has the column time_zone and no attribute
\* timezone (user.py lines 67-73), so the access raises AttributeError; line 61 is
\* outside the try of lines 65-122 and the exception reaches the caller.
V_StartDirectToday ==
    /\ VerifierIdle
    /\ \E u \in Users, m \in 0..MaxMinCommits :
          /\ vUser' = u
          /\ vMin' = m
    /\ vMode' = "direct"
    /\ vIdx' = 1
    /\ vLog' = 0
    /\ vObj' = NoLog
    /\ vPrev' = NoLog
    /\ vBroken' = FALSE
    /\ vResult' = NoResult
    /\ results' = InitialResults(1, 0)
    /\ verifyLog' = <<>>
    /\ vpc' = "raised"
    /\ UNCHANGED <<vDate, logs, lastRun, gocReturned>>
    /\ UNCHANGED storeVars
    /\ UNCHANGED cVars

\* A lookup whose filter leaves the user out: the first row of the date.
GocLookupAnyUser(u, d) ==
    IF \E i \in 1..Len(logs) : logs[i].log_date = d
    THEN CHOOSE i \in 1..Len(logs) :
            /\ logs[i].log_date = d
            /\ \A j \in 1..Len(logs) : logs[j].log_date = d => i <= j
    ELSE 0

\* DailyLog.get_or_create, lines 197-200: the query that looks the row up.
goc_lookup(u, d) == get_by_date(u, d)

\* verify_user_day, line 67, get_or_create's SELECT.  A session whose transaction
\* was invalidated by a failed flush raises on its next statement; the except
\* branch (lines 119-122) rolls back and returns the error result.
V_Query ==
    /\ vpc = "query"
    /\ \/ /\ vBroken
          /\ V_Failed(create_error_result("pending rollback"))
          /\ UNCHANGED gocReturned
       \/ /\ ~vBroken
          /\ goc_lookup(CurUser, vDate) # 0
          /\ vLog' = goc_lookup(CurUser, vDate)
          /\ vObj' = logs[goc_lookup(CurUser, vDate)]
          /\ gocReturned' = gocReturned \cup {<<CurUser, vDate, goc_lookup(CurUser, vDate)>>}
          /\ vpc' = "verify"
          /\ UNCHANGED <<vMode, vUser, vIdx, vDate, vMin, vPrev, vBroken, vResult, results,
                         verifyLog>>
       \/ /\ ~vBroken
          /\ goc_lookup(CurUser, vDate) = 0
          /\ vpc' = "insert"
          /\ UNCHANGED <<vMode, vUser, vIdx, vDate, vMin, vLog, vObj, vPrev, vBroken, vResult,
                         results, verifyLog, gocReturned>>
    /\ UNCHANGED <<logs, lastRun>>
    /\ UNCHANGED storeVars
    /\ UNCHANGED cVars

\* verify_user_day, line 67, get_or_create's add + commit + refresh (lines 203-206).
\* The uniqueness violation is an IntegrityError that get_or_create does not catch;
\* verify_user_day's except branch rolls back and returns the error result.
V_Insert ==
    /\ vpc = "insert"
    /\ IF UniqueViolation(CurUser, vDate)
       THEN /\ V_Failed(create_error_result("IntegrityError"))
            /\ UNCHANGED <<logs, gocReturned>>
       ELSE /\ logs' = Append(logs, NewLog(CurUser, vDate))
            /\ vLog' = Len(logs) + 1
            /\ vObj' = NewLog(CurUser, vDate)
            /\ gocReturned' = gocReturned \cup {<<CurUser, vDate, Len(logs) + 1>>}
            /\ vpc' = "verify"
            /\ UNCHANGED <<vMode, vUser, vIdx, vDate, vMin, vPrev, vBroken, vResult, results,
                           verifyLog>>
    /\ UNCHANGED lastRun
    /\ UNCHANGED storeVars
    /\ UNCHANGED cVars

\* A connectivity failure that stamps the completion time on the row all the same.
V_ConnectionFailedStamped ==
    /\ vpc = "verify"
    /\ V_Failed(create_error_result("GitHub connection failed. Please check your token."))
    /\ logs' = [logs EXCEPT ![vLog].verification_completed_at = Stamp]
    /\ UNCHANGED <<lastRun, gocReturned>>
    /\ UNCHANGED storeVars
    /\ UNCHANGED cVars

\* verify_user_day, lines 73-77: test_connection() is False.
V_ConnectionFailed ==
    /\ vpc = "verify"
    /\ V_Failed(create_error_result("GitHub connection failed. Please check your token."))
    /\ UNCHANGED <<logs, lastRun, gocReturned>>
    /\ UNCHANGED storeVars
    /\ UNCHANGED cVars

\* verify_user_day, lines 70-80 raise (the client, the aggregation): nothing was
\* assigned yet; lines 119-122 roll back and return the error result.
V_AggregationRaised ==
    /\ vpc = "verify"
    /\ V_Failed(create_error_result("aggregation error"))
    /\ UNCHANGED <<logs, lastRun, gocReturned>>
    /\ UNCHANGED storeVars
    /\ UNCHANGED cVars

\* A failed commit that leaves the three counts of lines 83-85 written.
V_CommitRaisedPartial ==
    /\ vpc = "verify"
    /\ V_Failed(create_error_result("commit error"))
    /\ \E f \in Fetched :
          logs' = [logs EXCEPT ![vLog].commits_count = Len(f.commits),
                               ![vLog].prs_count = Len(f.prs),
                               ![vLog].issues_count = Len(f.issues)]
    /\ UNCHANGED <<lastRun, gocReturned>>
    /\ UNCHANGED storeVars
    /\ UNCHANGED cVars

\* verify_user_day, line 95 raises: the assignments of lines 83-92 are pending in
\* the session only, and db.rollback() (line 121) discards them.
V_CommitRaised ==
    /\ vpc = "verify"
    /\ V_Failed(create_error_result("commit error"))
    /\ UNCHANGED <<logs, lastRun, gocReturned>>
    /\ UNCHANGED storeVars
    /\ UNCHANGED cVars

\* A threshold that must be exceeded, not reached.
PassedStrict(activity, min_commits) == activity.total_activity > min_commits

\* verify_user_day, line 91.
Passed(activity, min_commits) == activity.total_activity >= min_commits

\* Assignments that add the run's counts to the stored ones.
ApplyVerificationAccumulating(log, activity, passed) ==
    [log EXCEPT
        !.commits_count = @ + activity.commits_count,
        !.prs_count = @ + activity.prs_count,
        !.issues_count = @ + activity.issues_count,
        !.verification_details = Some(activity),
        !.verification_completed_at = Stamp,
        !.verification_passed = Some(passed)]

\* Assignments that leave the completion time out.
ApplyVerificationUnstamped(log, activity, passed) ==
    [log EXCEPT
        !.commits_count = activity.commits_count,
        !.prs_count = activity.prs_count,
        !.issues_count = activity.issues_count,
        !.verification_details = Some(activity),
        !.verification_passed = Some(passed)]

\* verify_user_day, lines 83-92: the assignments to the daily log.
ApplyVerification(log, activity, passed) ==
    [log EXCEPT
        !.commits_count = activity.commits_count,
        !.prs_count = activity.prs_count,
        !.issues_count = activity.issues_count,
        !.verification_details = Some(activity),
        !.verification_completed_at = Stamp,
        !.verification_passed = Some(passed)]

\* verify_user_day, lines 80-117: the aggregation returned, the assignments are
\* committed in one transaction (an UPDATE of the assigned columns of the row the
\* session holds), the object is refreshed and the result dictionary is returned.
V_Verified ==
    /\ vpc = "verify"
    /\ \E f \in Fetched :
          LET activity == get_daily_activity(vDate, f.commits, f.prs, f.issues)
              passed == Passed(activity, vMin)
          IN  /\ logs' = [logs EXCEPT ![vLog] = ApplyVerification(@, activity, passed)]
              /\ vObj' = ApplyVerification(logs[vLog], activity, passed)
              /\ vPrev' = logs[vLog]
              /\ vResult' = success_result(passed, activity)
              /\ lastRun' = [lastRun EXCEPT ![<<CurUser, vDate>>] =
                                Some([activity |-> activity, passed |-> passed])]
    /\ vpc' = "returned"
    /\ UNCHANGED <<vMode, vUser, vIdx, vDate, vMin, vLog, vBroken, results, verifyLog,
                   gocReturned>>
    /\ UNCHANGED storeVars
    /\ UNCHANGED cVars

\* A repository listing whose failure is reported as a failed verification.
V_ReposUnlistedFails ==
    /\ vpc = "verify"
    /\ V_Failed(create_error_result("Failed to get user repos"))
    /\ UNCHANGED <<logs, lastRun, gocReturned>>
    /\ UNCHANGED storeVars
    /\ UNCHANGED cVars

\* verify_user_day, lines 73-117, when test_connection() is True and every
\* get_user_repos() (github_service.py lines 119, 173, 240) catches a
\* GithubException and returns [] (lines 93-95): the three scans loop over no
\* repository and the empty snapshot is verified and committed like any other.
V_ReposUnlisted ==
    /\ vpc = "verify"
    /\ LET activity == get_daily_activity(vDate, <<>>, <<>>, <<>>)
           passed == Passed(activity, vMin)
       IN  /\ logs' = [logs EXCEPT ![vLog] = ApplyVerification(@, activity, passed)]
           /\ vObj' = ApplyVerification(logs[vLog], activity, passed)
           /\ vPrev' = logs[vLog]
           /\ vResult' = success_result(passed, activity)
           /\ lastRun' = [lastRun EXCEPT ![<<CurUser, vDate>>] =
                             Some([activity |-> activity, passed |-> passed])]
    /\ vpc' = "returned"
    /\ UNCHANGED <<vMode, vUser, vIdx, vDate, vMin, vLog, vBroken, results, verifyLog,
                   gocReturned>>
    /\ UNCHANGED storeVars
    /\ UNCHANGED cVars

\* verify_user_day, line 96 raises: the commit of line 95 has written the row; the
\* except branch (lines 119-122) finds nothing to roll back and returns the error
\* result.
V_RefreshRaised ==
    /\ vpc = "verify"
    /\ \E f \in Fetched :
          LET activity == get_daily_activity(vDate, f.commits, f.prs, f.issues)
              passed == Passed(activity, vMin)
          IN  /\ logs' = [logs EXCEPT ![vLog] = ApplyVerification(@, activity, passed)]
              /\ lastRun' = [lastRun EXCEPT ![<<CurUser, vDate>>] =
                                Some([activity |-> activity, passed |-> passed])]
    /\ V_Failed(create_error_result("refresh error"))
    /\ UNCHANGED gocReturned
    /\ UNCHANGED storeVars
    /\ UNCHANGED cVars

\* verify_and_notify, lines 145-147: the verification did not succeed; False is
\* returned, which verify_all_users (lines 222-228) counts as failed.
V_VerificationFailed ==
    /\ vpc = "returned"
    /\ vMode = "batch"
    /\ ~vResult.success
    /\ results' = Tally(results, CurUser, vDate, FALSE)
    /\ verifyLog' = Append(verifyLog, [user |-> CurUser, verify |-> "error",
                                       sent |-> FALSE, notified |-> FALSE])
    /\ V_Advance(FALSE)
    /\ UNCHANGED <<vMode, vUser, vDate, vMin, logs, lastRun, gocReturned>>
    /\ UNCHANGED storeVars
    /\ UNCHANGED cVars

\* A summary whose dispatch is never recorded.
SetSummarySentNever(rows, id) == rows

\* verify_and_notify, lines 163-166: summary_sent_at of the daily log of (u, d).
SetSummarySent(rows, id) ==
    IF id = 0 THEN rows ELSE [rows EXCEPT ![id].summary_sent_at = Stamp]

\* verify_and_notify, lines 161-169: the summary was sent, summary_sent_at is
\* committed, True is returned and counted (verify_all_users, lines 213-228).
V_SummarySent ==
    /\ vpc = "returned"
    /\ vMode = "batch"
    /\ vResult.success
    /\ logs' = SetSummarySent(logs, get_by_date(CurUser, vDate))
    /\ results' = Tally(results, CurUser, vDate, TRUE)
    /\ verifyLog' = Append(verifyLog, [user |-> CurUser, verify |-> "ok", sent |-> TRUE,
                                       notified |-> TRUE])
    /\ V_Advance(FALSE)
    /\ UNCHANGED <<vMode, vUser, vDate, vMin, lastRun, gocReturned>>
    /\ UNCHANGED storeVars
    /\ UNCHANGED cVars

\* verify_and_notify, lines 170-176: send_verification_summary returned False or
\* raised; False is returned and the batch counts the user as failed.
V_SummaryNotSent ==
    /\ vpc = "returned"
    /\ vMode = "batch"
    /\ vResult.success
    /\ results' = Tally(results, CurUser, vDate, FALSE)
    /\ verifyLog' = Append(verifyLog, [user |-> CurUser, verify |-> "ok", sent |-> FALSE,
                                       notified |-> FALSE])
    /\ V_Advance(FALSE)
    /\ UNCHANGED <<vMode, vUser, vDate, vMin, logs, lastRun, gocReturned>>
    /\ UNCHANGED storeVars
    /\ UNCHANGED cVars

\* verify_and_notify, line 166 raises after the summary was sent: lines 174-176
\* return False without a rollback, which leaves the session's transaction invalid.
V_SummaryCommitRaised ==
    /\ vpc = "returned"
    /\ vMode = "batch"
    /\ vResult.success
    /\ results' = Tally(results, CurUser, vDate, FALSE)
    /\ verifyLog' = Append(verifyLog, [user |-> CurUser, verify |-> "ok", sent |-> TRUE,
                                       notified |-> FALSE])
    /\ V_Advance(TRUE)
    /\ UNCHANGED <<vMode, vUser, vDate, vMin, logs, lastRun, gocReturned>>
    /\ UNCHANGED storeVars
    /\ UNCHANGED cVars

\* An exception that leaves the loop: the batch ends at the user that raised.
V_RaisedAborts ==
    /\ vpc = "query"
    /\ vMode = "batch"
    /\ results' = TallyException(results, CurUser)
    /\ verifyLog' = Append(verifyLog, [user |-> CurUser, verify |-> "raised",
                                       sent |-> FALSE, notified |-> FALSE])
    /\ vpc' = "done"
    /\ vBroken' = FALSE
    /\ UNCHANGED <<vMode, vUser, vIdx, vDate, vMin, vLog, vObj, vPrev, vResult, logs, lastRun,
                   gocReturned>>
    /\ UNCHANGED storeVars
    /\ UNCHANGED cVars

\* verify_all_users, lines 230-237: verify_and_notify raised (outside its own try
\* blocks, lines 139-150 and 60-63); the except branch counts the user as failed.
V_Raised ==
    /\ vpc = "query"
    /\ vMode = "batch"
    /\ results' = TallyException(results, CurUser)
    /\ verifyLog' = Append(verifyLog, [user |-> CurUser, verify |-> "raised",
                                       sent |-> FALSE, notified |-> FALSE])
    /\ V_Advance(vBroken)
    /\ UNCHANGED <<vMode, vUser, vDate, vMin, logs, lastRun, gocReturned>>
    /\ UNCHANGED storeVars
    /\ UNCHANGED cVars

\* ------------------------------------------------------- the check-in job
\* The user the loop of send_daily_checkins is at.
CheckinUser == get_active_users[cIdx]

\* `continue`, or the end of the loop body: the next user, or the end of the with
\* block, where get_db_context commits; on an invalid session that commit raises,
\* which lines 104-106 count as one more error, and the session is closed.
C_Advance(res, broken) ==
    /\ cIdx' = cIdx + 1
    /\ cLog' = 0
    /\ IF cIdx + 1 <= Len(get_active_users)
       THEN /\ cpc' = "query"
            /\ cBroken' = broken
            /\ cResults' = res
       ELSE /\ cpc' = "done"
            /\ cBroken' = FALSE
            /\ cResults' = IF broken THEN [res EXCEPT !.errors = @ + 1] ELSE res

\* send_daily_checkins, lines 42-61.
C_Start ==
    /\ cpc \in {"idle", "done"}
    /\ cIdx' = 1
    /\ cLog' = 0
    /\ cBroken' = FALSE
    /\ cResults' = InitialCheckinResults(Len(get_active_users))
    /\ cpc' = IF Len(get_active_users) >= 1 THEN "query" ELSE "done"
    /\ UNCHANGED <<cDate, logs, lastRun, gocReturned>>
    /\ UNCHANGED storeVars
    /\ UNCHANGED mails
    /\ UNCHANGED vVars

\* send_daily_checkins, lines 68-76: user_today, get_or_create's SELECT, and the
\* test of checkin_sent_at.  On an invalid session the statement raises and lines
\* 99-102 count an error.
C_Query ==
    /\ cpc = "query"
    /\ \E user_today \in Days :
          /\ cDate' = user_today
          /\ \/ /\ cBroken
                /\ C_Advance([cResults EXCEPT !.errors = @ + 1], TRUE)
                /\ UNCHANGED gocReturned
             \/ /\ ~cBroken
                /\ goc_lookup(CheckinUser, user_today) # 0
                /\ gocReturned' = gocReturned \cup
                      {<<CheckinUser, user_today, goc_lookup(CheckinUser, user_today)>>}
                /\ IF IsSet(logs[goc_lookup(CheckinUser, user_today)].checkin_sent_at)
                   THEN C_Advance(cResults, FALSE)
                   ELSE /\ cLog' = goc_lookup(CheckinUser, user_today)
                        /\ cpc' = "send"
                        /\ UNCHANGED <<cIdx, cBroken, cResults>>
             \/ /\ ~cBroken
                /\ goc_lookup(CheckinUser, user_today) = 0
                /\ cpc' = "insert"
                /\ UNCHANGED <<cIdx, cLog, cBroken, cResults, gocReturned>>
    /\ UNCHANGED <<logs, lastRun>>
    /\ UNCHANGED storeVars
    /\ UNCHANGED mails
    /\ UNCHANGED vVars

\* send_daily_checkins, line 71, get_or_create's add + commit + refresh.  The
\* uniqueness violation is an IntegrityError caught at lines 99-102, which count an
\* error and continue without a rollback.
C_Insert ==
    /\ cpc = "insert"
    /\ IF UniqueViolation(CheckinUser, cDate)
       THEN /\ C_Advance([cResults EXCEPT !.errors = @ + 1], TRUE)
            /\ UNCHANGED <<logs, gocReturned>>
       ELSE /\ logs' = Append(logs, NewLog(CheckinUser, cDate))
            /\ cLog' = Len(logs) + 1
            /\ gocReturned' = gocReturned \cup {<<CheckinUser, cDate, Len(logs) + 1>>}
            /\ cpc' = "send"
            /\ UNCHANGED <<cIdx, cBroken, cResults>>
    /\ UNCHANGED <<cDate, lastRun>>
    /\ UNCHANGED storeVars
    /\ UNCHANGED mails
    /\ UNCHANGED vVars

\* send_daily_checkins, lines 82-94: the e-mail was sent and checkin_sent_at is
\* committed.
C_Sent ==
    /\ cpc = "send"
    /\ mails' = mails (+) SetToBag({<<CheckinUser, cDate>>})
    /\ logs' = [logs EXCEPT ![cLog].checkin_sent_at = Stamp]
    /\ C_Advance([cResults EXCEPT !.emails_sent = @ + 1], FALSE)
    /\ UNCHANGED <<cDate, lastRun, gocReturned>>
    /\ UNCHANGED storeVars
    /\ UNCHANGED vVars

\* send_daily_checkins, lines 95-97: send_daily_checkin returned False.
C_NotSent ==
    /\ cpc = "send"
    /\ C_Advance([cResults EXCEPT !.errors = @ + 1], FALSE)
    /\ UNCHANGED <<cDate, logs, lastRun, gocReturned>>
    /\ UNCHANGED storeVars
    /\ UNCHANGED mails
    /\ UNCHANGED vVars

\* Commits of checkin_sent_at that may fail, per user and date.
MaxLostCommits == 1

\* send_daily_checkins, lines 82-102: the e-mail was sent and db.commit() (line 91)
\* raises; lines 99-102 count an error and continue without a rollback, so
\* checkin_sent_at is not stored and the session's transaction stays invalid.
C_SentCommitRaised ==
    /\ cpc = "send"
    /\ CopiesIn(<<CheckinUser, cDate>>, mails) < MaxLostCommits
    /\ mails' = mails (+) SetToBag({<<CheckinUser, cDate>>})
    /\ C_Advance([cResults EXCEPT !.errors = @ + 1], TRUE)
    /\ UNCHANGED <<cDate, logs, lastRun, gocReturned>>
    /\ UNCHANGED storeVars
    /\ UNCHANGED vVars

\* ------------------------------------------------------- the cron entry points
\* Time passes while no job is running.
K_Tick ==
    /\ cpc \in {"idle", "done", "skipped"}
    /\ VerifierIdle
    /\ \E now \in CronInstants :
          /\ now > clock
          /\ \A other \in CronInstants : other > clock => now <= other
          /\ clock' = now
    /\ UNCHANGED <<active, timeVars, aggVars, replyVars, scanVars>>
    /\ UNCHANGED jobVars

\* send_daily_checkins, lines 36-61: today in settings.timezone, the weekday guard,
\* and the start of the run.
K_SendDailyCheckins ==
    /\ cpc \in {"idle", "done", "skipped"}
    /\ LET today == get_current_date(NoName, SettingsTimezone, clock)
       IN  IF SkipsToday(today)
           THEN /\ cpc' = "skipped"
                /\ UNCHANGED <<cIdx, cLog, cBroken, cResults>>
           ELSE /\ cIdx' = 1
                /\ cLog' = 0
                /\ cBroken' = FALSE
                /\ cResults' = InitialCheckinResults(Len(get_active_users))
                /\ cpc' = IF Len(get_active_users) >= 1 THEN "query" ELSE "done"
    /\ UNCHANGED <<cDate, mails, logs, lastRun, gocReturned>>
    /\ UNCHANGED storeVars
    /\ UNCHANGED vVars

\* verify_daily_work, lines 33-47: today in settings.timezone, the weekday guard,
\* and verify_all_users(today).
K_VerifyDailyWork ==
    /\ VerifierIdle
    /\ vMode' = "batch"
    /\ LET today == get_current_date(NoName, SettingsTimezone, clock)
       IN  IF SkipsToday(today)
           THEN /\ vpc' = "skipped"
                /\ UNCHANGED <<vDate, vUser, vMin, vIdx, vLog, vObj, vPrev, vBroken, vResult,
                               results, verifyLog>>
           ELSE /\ vDate' = today
                /\ results' = InitialResults(today, Len(get_active_users))
                /\ vUser' = 1
                /\ vMin' = DefaultMinCommits
                /\ vIdx' = 1
                /\ vLog' = 0
                /\ vObj' = NoLog
                /\ vPrev' = NoLog
                /\ vBroken' = FALSE
                /\ vResult' = NoResult
                /\ verifyLog' = <<>>
                /\ vpc' = IF Len(get_active_users) >= 1 THEN "query" ELSE "done"
    /\ UNCHANGED <<logs, lastRun, gocReturned>>
    /\ UNCHANGED storeVars
    /\ UNCHANGED cVars

\* ------------------------------------------------------------------- Next
\* The deployed system: the verification batch and the check-in job.
Next ==
    \/ V_StartBatch
    \/ V_Query
    \/ V_Insert
    \/ V_ConnectionFailed
    \/ V_AggregationRaised
    \/ V_CommitRaised
    \/ V_Verified
    \/ V_RefreshRaised
    \/ V_VerificationFailed
    \/ V_SummarySent
    \/ V_SummaryNotSent
    \/ V_SummaryCommitRaised
    \/ V_Raised
    \/ C_Start
    \/ C_Query
    \/ C_Insert
    \/ C_Sent
    \/ C_NotSent

Spec == Init /\ [][Next]_vars

\* verify_user_day called on its own, one call after the other.
ApiNext ==
    \/ V_StartDirect
    \/ V_StartDirectToday
    \/ V_Query
    \/ V_Insert
    \/ V_ConnectionFailed
    \/ V_AggregationRaised
    \/ V_CommitRaised
    \/ V_Verified
    \/ V_ReposUnlisted
    \/ V_RefreshRaised

ApiSpec == Init /\ [][ApiNext]_vars

\* The time utilities, called with any arguments.
TimeNext ==
    \/ T_Call
    \/ T_Return

TimeSpec == Init /\ [][TimeNext]_vars

\* One call of the activity aggregation.
AggNext ==
    \/ G_Start
    \/ G_Scan
    \/ G_FetchOk
    \/ G_FetchGithubException
    \/ G_FetchRaised
    \/ G_Return

AggSpec == Init /\ [][AggNext]_vars

\* The reply webhook, and verify_user_day called on its own, interleaved.
ReplyNext ==
    \/ R_Receive
    \/ R_Today
    \/ V_StartDirect
    \/ V_Query
    \/ V_Insert
    \/ V_Verified

ReplySpec == Init /\ [][ReplyNext]_vars

\* One scan of a list of pull requests or issues.
ScanNext ==
    \/ S_Call
    \/ S_Return

ScanSpec == Init /\ [][ScanNext]_vars

\* The two cron jobs from their entry points, on any day of the week.
CronNext ==
    \/ K_Tick
    \/ K_SendDailyCheckins
    \/ C_Query
    \/ C_Insert
    \/ C_Sent
    \/ C_NotSent
    \/ K_VerifyDailyWork
    \/ V_Query
    \/ V_Insert
    \/ V_Verified
    \/ V_SummarySent
    \/ V_SummaryNotSent

CronSpec == Init /\ [][CronNext]_vars

\* send_daily_checkins from its entry point, run after run.
CheckinNext ==
    \/ K_Tick
    \/ K_SendDailyCheckins
    \/ C_Query
    \/ C_Insert
    \/ C_Sent
    \/ C_NotSent
    \/ C_SentCommitRaised

CheckinSpec == Init /\ [][CheckinNext]_vars

\* ================================================================== claims
\* C1: in every reachable state of the daily-record store there is at most one
\* daily log per (user, date); an insert of a second one fails with a conflict
\* (the call ends with the IntegrityError and holds no new record) and the pair
\* still has exactly its one record.
C1_UniqueDailyLog ==
    /\ \A i, j \in 1..Len(logs) :
          (logs[i].user_id = logs[j].user_id /\ logs[i].log_date = logs[j].log_date)
              => i = j
    /\ (vpc = "returned" /\ vResult.error = Some("IntegrityError"))
          => (~vResult.success /\ vLog = 0 /\ Cardinality(Matching(CurUser, vDate)) = 1)

\* A second insert for a pair that has a record was attempted and refused.
C1_Witness ==
    /\ vpc = "returned"
    /\ vResult.error = Some("IntegrityError")
    /\ Len(logs) >= 1

\* C2: get_or_create is idempotent: every call that returned for a key returned
\* the one record of that key, whichever call created it, so two sequential calls
\* with the same key return the same identity and the second creates nothing.
C2_GetOrCreateIdempotent ==
    \A t \in gocReturned :
        /\ t[3] \in 1..Len(logs)
        /\ logs[t[3]].user_id = t[1]
        /\ logs[t[3]].log_date = t[2]
        /\ \A s \in gocReturned : (s[1] = t[1] /\ s[2] = t[2]) => s[3] = t[3]
        /\ Cardinality(Matching(t[1], t[2])) = 1

\* Two sequential calls for one key, by the two jobs, both hold the same record.
C2_Witness ==
    /\ vpc = "verify"
    /\ cpc = "send"
    /\ vLog # 0
    /\ vLog = cLog
    /\ CurUser = CheckinUser
    /\ vDate = cDate

\* C3: when two get_or_create calls for one key both read "no record" before
\* either inserts, the call whose insert hits the uniqueness violation recovers
\* by re-reading: it goes on with the stored record, and its caller (the
\* verification, the check-in job) reports no failure for it.
C3_ConflictRecovered ==
    [][/\ (vpc = "insert" /\ vpc' # "insert" /\ UniqueViolation(CurUser, vDate))
            => (vpc' = "verify" /\ vLog' = get_by_date(CurUser, vDate))
       /\ (cpc = "insert" /\ cpc' # "insert" /\ UniqueViolation(CheckinUser, cDate))
            => (cResults'.errors = cResults.errors /\ ~cBroken')]_vars

\* The four things a verification run writes, of a row.
VerificationFields(log) ==
    <<log.commits_count, log.prs_count, log.issues_count, log.verification_details,
      log.verification_passed, log.verification_completed_at>>

\* C4: verification overwrites: in every reachable state, the counts, the detail
\* snapshot and the passed flag of every daily log are those of the latest run
\* that wrote the record (its activity snapshot alone, never a sum over runs), and
\* those of a fresh record while no run has written it.
C4_OverwriteLatest ==
    \A i \in 1..Len(logs) :
        LET run == lastRun[<<logs[i].user_id, logs[i].log_date>>]
        IN  IF run = None
            THEN VerificationFields(logs[i]) = VerificationFields(NoLog)
            ELSE /\ logs[i].commits_count = Val(run).activity.commits_count
                 /\ logs[i].prs_count = Val(run).activity.prs_count
                 /\ logs[i].issues_count = Val(run).activity.issues_count
                 /\ logs[i].verification_details = Some(Val(run).activity)
                 /\ logs[i].verification_passed = Some(Val(run).passed)

\* A record verified as passed with one commit is verified again, with no
\* activity, and is now verified as failed with count 0.
C4_Witness ==
    /\ vpc = "returned"
    /\ vResult.success
    /\ vPrev.verification_passed = Some(TRUE)
    /\ vPrev.commits_count = 1
    /\ logs[vLog].verification_passed = Some(FALSE)
    /\ logs[vLog].commits_count = 0

\* C5: for every successful verify_user_day run and every threshold, the returned
\* passed flag is true exactly when commits + pull requests + issues reach the
\* threshold, and the persisted flag is the returned one; no activity fails the
\* default threshold and one item passes it.
C5_PassedIffThreshold ==
    (vpc = "returned" /\ vResult.success)
        => /\ vResult.passed <=>
                (vResult.commits_count + vResult.prs_count + vResult.issues_count >= vMin)
           /\ logs[vLog].verification_passed = Some(vResult.passed)
           /\ logs[vLog].commits_count = vResult.commits_count
           /\ logs[vLog].prs_count = vResult.prs_count
           /\ logs[vLog].issues_count = vResult.issues_count

\* A run with the default threshold and exactly one item of activity passed.
C5_Witness ==
    /\ vpc = "returned"
    /\ vResult.success
    /\ vMin = DefaultMinCommits
    /\ vResult.total_activity = 1
    /\ vResult.passed
    /\ logs[vLog].verification_passed = Some(TRUE)

\* C6: when the connectivity test fails, verify_user_day returns success = false
\* with an error message, and the record's counts, passed flag, snapshot and
\* completion timestamp are as the run found them: unset on a fresh record, the
\* previous run's on a verified one.
C6_ConnectionFailureWritesNothing ==
    (vpc = "returned"
        /\ vResult.error = Some("GitHub connection failed. Please check your token."))
        => /\ ~vResult.success
           /\ ~vResult.passed
           /\ vLog # 0
           /\ VerificationFields(logs[vLog]) = VerificationFields(vObj)
           /\ (lastRun[<<CurUser, vDate>>] = None)
                 => VerificationFields(logs[vLog]) = VerificationFields(NoLog)
           /\ (lastRun[<<CurUser, vDate>>] # None)
                 => /\ logs[vLog].verification_details =
                          Some(Val(lastRun[<<CurUser, vDate>>]).activity)
                    /\ logs[vLog].verification_completed_at = Stamp

\* The connectivity test failed in a run for a record verified before.
C6_Witness ==
    /\ vpc = "returned"
    /\ vResult.error = Some("GitHub connection failed. Please check your token.")
    /\ vLog # 0
    /\ logs[vLog].verification_passed = Some(TRUE)
    /\ logs[vLog].commits_count = 1

\* C7: in every reachable state every daily log's counts agree with its detail
\* snapshot: the snapshot is unset and the counts are 0, or the three counts are
\* the lengths of the snapshot's commit, pull-request and issue lists.
C7_CountsMatchSnapshot ==
    \A i \in 1..Len(logs) :
        IF logs[i].verification_details = None
        THEN logs[i].commits_count = 0 /\ logs[i].prs_count = 0 /\ logs[i].issues_count = 0
        ELSE /\ logs[i].commits_count = Len(Val(logs[i].verification_details).commits)
             /\ logs[i].prs_count = Len(Val(logs[i].verification_details).pull_requests)
             /\ logs[i].issues_count = Len(Val(logs[i].verification_details).issues)

\* A stored record with a snapshot of one commit and the counts 1, 0, 0.
C7_Witness ==
    \E i \in 1..Len(logs) :
        /\ logs[i].verification_details # None
        /\ Len(Val(logs[i].verification_details).commits) = 1
        /\ logs[i].commits_count = 1
        /\ logs[i].prs_count = 0

\* C8, as stated: whenever a step of verify_user_day after get_or_create raised
\* (the run returned an error result while holding its record), none of the
\* counts, snapshot, passed flag and completion timestamp changed in the store.
C8_NothingChangesOnAnyRaise ==
    (vpc = "returned" /\ ~vResult.success /\ vLog # 0)
        => VerificationFields(logs[vLog]) = VerificationFields(vObj)

\* C8, amended: a run persists all or nothing.  When a step up to and including
\* the commit raises (aggregation error, commit error) none of the counts, snapshot,
\* passed flag and completion timestamp changes in the store; when the refresh
\* after the commit raises, the error result is returned although all of them
\* were written; and no stored record has only some of them written.
C8_AllOrNothing ==
    /\ (vpc = "returned" /\ vResult.error \in {Some("aggregation error"), Some("commit error")})
          => /\ ~vResult.success
             /\ VerificationFields(logs[vLog]) = VerificationFields(vObj)
    /\ (vpc = "returned" /\ vResult.error = Some("refresh error"))
          => /\ ~vResult.success
             /\ lastRun[<<CurUser, vDate>>] # None
             /\ logs[vLog] = ApplyVerification(logs[vLog],
                                               Val(lastRun[<<CurUser, vDate>>]).activity,
                                               Val(lastRun[<<CurUser, vDate>>]).passed)
    /\ \A i \in 1..Len(logs) :
          \/ VerificationFields(logs[i]) = VerificationFields(NoLog)
          \/ /\ logs[i].verification_details # None
             /\ logs[i].verification_passed # None
             /\ logs[i].verification_completed_at # None

\* The commit of a run raised on a record that an earlier run had verified.
C8_Witness ==
    /\ vpc = "returned"
    /\ vResult.error = Some("commit error")
    /\ vLog # 0
    /\ logs[vLog].verification_completed_at = Stamp
    /\ logs[vLog].commits_count = 1

\* C9: in verify_all_users a user whose verify-and-notify raised or did not
\* succeed does not stop the batch: while the loop is at position k the users
\* before k have one entry each in user_results, in the order of the list, and
\* the batch ends with one entry for every active user.
C9_BatchCoversEveryUser ==
    (vMode = "batch" /\ vpc # "idle")
        => /\ results.total_users = Len(get_active_users)
           /\ Len(results.user_results) = vIdx - 1
           /\ \A i \in 1..Len(results.user_results) :
                 results.user_results[i].user_email = get_active_users[i]
           /\ (vpc = "done") => Len(results.user_results) = results.total_users
           /\ (vpc # "done") => vIdx \in 1..Len(get_active_users)
           /\ Len(verifyLog) = Len(results.user_results)

\* A batch over two users ended; the first raised, the second was verified.
C9_Witness ==
    /\ vMode = "batch"
    /\ vpc = "done"
    /\ Len(results.user_results) = 2
    /\ verifyLog[1].verify = "raised"
    /\ ~results.user_results[1].success
    /\ results.user_results[2].success

\* The users of the running batch whose verification raised or did not succeed.
VerificationFailures == {i \in 1..Len(verifyLog) : verifyLog[i].verify # "ok"}

\* The users of the running batch whose verify_and_notify raised or returned False.
NotifyFailures ==
    {i \in 1..Len(verifyLog) : verifyLog[i].verify # "ok" \/ ~verifyLog[i].notified}

ResolvedName == IF tIn.tz_name = NoName THEN tIn.settings_timezone ELSE tIn.tz_name

C20_IsWeekdayMondayToFriday ==
    (tpc = "returned" /\ tIn.check_date # None)
        => /\ tOut.is_weekday <=>
                 ((Val(tIn.check_date) - Saturday20240113 + 5) % 7 \in 0..4)
           /\ (tIn.check_date = Some(Monday20240115)) => tOut.is_weekday
           /\ (tIn.check_date = Some(Saturday20240113)) => ~tOut.is_weekday

\* is_weekday returned true for Monday 2024-01-15 passed with America/New_York.
C20_Witness ==
    /\ tpc = "returned"
    /\ tIn.check_date = Some(Monday20240115)
    /\ tIn.tz_name = "America/New_York"
    /\ tOut.is_weekday

\* The number of items of repository r in a list of items.
CountIn(items, r) == Cardinality({i \in 1..Len(items) : items[i].repository = r})

\* C16: an exception raised while fetching the commits, pull requests or issues
\* of one repository never leaves the aggregation call, and the snapshot returned
\* holds every matching item of every repository whose fetch did not fail.
C16_FetchExceptionIsContained ==
    /\ gpc # "raised"
    /\ (gpc = "returned")
          => \A f \in gHist :
                (f.raised = "no")
                   => CountIn(<<gOut.commits, gOut.pull_requests, gOut.issues>>[f.kind],
                              f.repository) = f.matched

\* C17: for every snapshot get_daily_activity produces, the three counts are the
\* lengths of the item lists, total_activity is the sum of the counts, and
\* repositories is the ascending, duplicate-free list of exactly the repository
\* names that occur in an item.
C17_SnapshotDerivedFields ==
    (gpc = "returned")
        => /\ gOut.commits_count = Len(gOut.commits)
           /\ gOut.prs_count = Len(gOut.pull_requests)
           /\ gOut.issues_count = Len(gOut.issues)
           /\ gOut.total_activity = gOut.commits_count + gOut.prs_count + gOut.issues_count
           /\ \A i, j \in 1..Len(gOut.repositories) :
                 i < j => gOut.repositories[i] < gOut.repositories[j]
           /\ {gOut.repositories[i] : i \in 1..Len(gOut.repositories)} =
                 {r \in AggRepos : CountIn(gOut.commits \o gOut.pull_requests \o gOut.issues, r) >= 1}

\* A snapshot whose items name two repositories, the greater name first, with
\* activity of more than one kind.
C17_Witness ==
    /\ gpc = "returned"
    /\ gOut.commits = <<[repository |-> 2]>>
    /\ gOut.issues = <<[repository |-> 1]>>
    /\ gOut.repositories = <<1, 2>>
    /\ gOut.total_activity = 2

\* C18: every activity query issued for a user is bounded by the start-of-day and
\* end-of-day instants of the target date in that user's own timezone, and start
\* is never after end.
C18_WindowIsUsersLocalDay ==
    (gpc \in {"fetch", "merge", "returned", "raised"})
        => /\ gWindow[1] = get_start_of_day(Some(gIn.target_date), gIn.time_zone,
                                            gIn.settings_timezone, 0)
           /\ gWindow[2] = get_end_of_day(Some(gIn.target_date), gIn.time_zone,
                                          gIn.settings_timezone, 0)
           /\ gWindow[1] <= gWindow[2]

\* The request the webhook holds has content, and its sender address is user u's.
ReplyFrom(u) ==
    /\ rPayload.from = Some(EmailOf(u))
    /\ (rPayload.text # "" \/ rPayload.html # "")

\* C11: reply ingestion for a known sender with a non-empty body succeeds and
\* sets the reply text and the reply timestamp on the sender's daily log of the
\* arrival date.
C11_ReplyIsStored ==
    \A u \in Users :
        (rpc = "responded" /\ active[u] /\ ReplyFrom(u))
            => /\ rStatus = 200
               /\ \E i \in 1..Len(logs) :
                     /\ logs[i].user_id = u
                     /\ logs[i].user_response # None
                     /\ logs[i].user_responded_at # None

\* C12: a reply with an empty body (no text and no HTML) from a known sender is
\* answered with the explicit error 400, and the step that rejects it creates and
\* modifies no daily log.
C12_EmptyBodyRejected ==
    [][(/\ replyVars' # replyVars
        /\ rpc' = "responded"
        /\ rPayload'.from \in {Some(EmailOf(u)) : u \in Users}
        /\ rPayload'.text = ""
        /\ rPayload'.html = "")
          => (rStatus' = 400 /\ rUser' = 0 /\ logs' = logs)]_vars

\* An empty reply of user 1 was rejected while the table holds a record.
C12_Witness ==
    /\ rpc = "responded"
    /\ rPayload = [from |-> Some(EmailOf(1)), text |-> "", html |-> ""]
    /\ rStatus = 400
    /\ Len(logs) >= 1

C14_DeactivatedSenderUnresolved ==
    \A u \in Users :
        (rpc # "idle" /\ ~active[u] /\ ReplyFrom(u))
            => /\ rpc = "responded"
               /\ rUser = 0
               /\ rStatus = 404

\* C15: once a reply ingestion and a verification run for the same user and date
\* have both completed, the daily log holds the reply text with its timestamp and
\* the verification's snapshot, passed flag and completion timestamp.
C15_ReplyAndVerificationBothKept ==
    \A u \in Users :
        (/\ rpc = "responded" /\ active[u] /\ ReplyFrom(u)
         /\ vpc = "returned" /\ vResult.success /\ CurUser = u)
            => /\ logs[vLog].user_response # None
               /\ logs[vLog].user_responded_at # None
               /\ logs[vLog].verification_details # None
               /\ logs[vLog].verification_passed # None
               /\ logs[vLog].verification_completed_at # None

\* The batch step that ends verify_and_notify for one user.
NotifyReturns == Len(verifyLog') = Len(verifyLog) + 1

PassedUsers ==
    {i \in 1..Len(results.user_results) :
        /\ results.user_results[i].success
        /\ get_by_date(results.user_results[i].user_email, vDate) # 0
        /\ logs[get_by_date(results.user_results[i].user_email, vDate)].verification_passed
              = Some(TRUE)}

C25_OnlyActiveUsersTouched ==
    [][/\ \A i \in 1..Len(logs') :
             (i > Len(logs) \/ logs'[i] # logs[i]) => active[logs'[i].user_id]
       /\ cResults'.emails_sent > cResults.emails_sent => active[CheckinUser]
       /\ (NotifyReturns /\ verifyLog'[Len(verifyLog')].sent) =>
             active[verifyLog'[Len(verifyLog')].user]]_vars

\* Both jobs have finished beside a deactivated user: the active user's record holds
\* the check-in and the summary timestamps, the deactivated user has no record.
C25_Witness ==
    /\ vpc = "done" /\ cpc = "done"
    /\ \E u \in Users : ~active[u] /\ \A i \in 1..Len(logs) : logs[i].user_id # u
    /\ cResults.emails_sent >= 1
    /\ \E i \in 1..Len(verifyLog) : verifyLog[i].sent
    /\ \E i \in 1..Len(logs) :
          /\ active[logs[i].user_id]
          /\ IsSet(logs[i].checkin_sent_at)
          /\ IsSet(logs[i].summary_sent_at)

\* C29: in every persisted state of a daily log, verification_passed,
\* verification_completed_at and verification_details are set together or not at
\* all, and summary_sent_at is set only if verification_completed_at is.
C29_VerificationFieldsSetTogether ==
    \A i \in 1..Len(logs) :
        /\ IsSet(logs[i].verification_passed) <=> IsSet(logs[i].verification_completed_at)
        /\ IsSet(logs[i].verification_completed_at) <=> IsSet(logs[i].verification_details)
        /\ IsSet(logs[i].summary_sent_at) => IsSet(logs[i].verification_completed_at)

\* One record is verified and its summary sent, another exists without any
\* verification field (the check-in job created it).
C29_Witness ==
    /\ \E i \in 1..Len(logs) :
          /\ IsSet(logs[i].summary_sent_at)
          /\ IsSet(logs[i].verification_passed)
    /\ \E j \in 1..Len(logs) :
          /\ IsSet(logs[j].checkin_sent_at)
          /\ ~IsSet(logs[j].verification_completed_at)
          /\ ~IsSet(logs[j].verification_details)

\* The record and the result after a verification that found nothing.
EmptyVerification(log, result) ==
    /\ result.success
    /\ result.total_activity = 0
    /\ log.commits_count = 0 /\ log.prs_count = 0 /\ log.issues_count = 0
    /\ log.verification_completed_at = Stamp
    /\ IsSet(log.verification_details)
    /\ Val(log.verification_details).commits = <<>>
    /\ Val(log.verification_details).pull_requests = <<>>
    /\ Val(log.verification_details).issues = <<>>
    /\ Val(log.verification_details).repositories = <<>>
    /\ log.verification_passed = Some(result.passed)

\* C28 (as stated): when the connectivity test passes and the listing of the
\* repositories fails with an API error, verify_user_day returns success = true
\* with passed = false and persists zero counts and an empty snapshot over whatever
\* the record held.
C28_UnlistedReposNeverPass ==
    [][V_ReposUnlisted =>
          /\ EmptyVerification(logs'[vLog], vResult')
          /\ ~vResult'.passed]_vars

\* C28: when the connectivity test passes and the listing of the repositories
\* fails with an API error, verify_user_day returns success = true and persists
\* zero counts and an empty snapshot over whatever the record held; passed is
\* 0 >= min_commits: false for the default threshold and every positive one, true
\* for the threshold 0.
C28_UnlistedReposVerifiedAsEmpty ==
    [][V_ReposUnlisted =>
          /\ EmptyVerification(logs'[vLog], vResult')
          /\ vResult'.passed <=> (vMin = 0)
          /\ vMin >= DefaultMinCommits => ~vResult'.passed]_vars

\* An empty verification under the default threshold has replaced a passed one.
C28_Witness ==
    /\ vpc = "returned" /\ vMode = "direct" /\ vMin = DefaultMinCommits
    /\ vPrev.verification_passed = Some(TRUE)
    /\ vPrev.commits_count + vPrev.prs_count + vPrev.issues_count >= 1
    /\ EmptyVerification(logs[vLog], vResult)
    /\ ~vResult.passed

\* C22: verify_user_day never raises to its caller: with the target date given or
\* omitted and with any threshold, a call ends with a result dictionary, a
\* structured failure result where an error occurred.
C22_VerifyNeverRaises ==
    vMode = "direct" => vpc # "raised"

\* The items a scan without the break collects.
RECURSIVE full_scan(_, _, _, _)
full_scan(kind, items, i, target_date) ==
    IF i > Len(items) THEN <<>>
    ELSE (IF Collected(kind, items[i], target_date) THEN <<items[i]>> ELSE <<>>)
            \o full_scan(kind, items, i + 1, target_date)

\* C23: the early stop of the pull-request and issue scans is only an
\* optimization: for every list sorted by updated_at, newest first, the items
\* collected with the break are exactly the items a full scan filtered by the
\* created-or-updated-on-target-date predicate collects.
C23_EarlyStopIsOnlyOptimization ==
    spc = "returned" => sOut = full_scan(sIn.kind, sIn.items, 1, sIn.target_date)

\* C27: across any sequence of runs of send_daily_checkins that do not overlap, at
\* most one check-in e-mail is delivered per user and local date.
C27_AtMostOneCheckinPerDay ==
    \A u \in Users, d \in Days : CopiesIn(<<u, d>>, mails) <= 1

\* The current date in the configured default timezone is a Saturday or a Sunday.
Weekend == weekday(get_current_date(NoName, SettingsTimezone, clock)) >= 5

\* C26: both cron jobs only run on weekdays: started while the current date in
\* the configured default timezone is a Saturday or a Sunday, send_daily_checkins
\* and verify_daily_work return without sending an e-mail and without creating or
\* modifying a daily log.
C26_CronJobsRestOnWeekends ==
    [][/\ (cpc \in {"idle", "done", "skipped"} /\ cVars' # cVars /\ Weekend) =>
             /\ cpc' = "skipped"
             /\ UNCHANGED <<logs, mails, cResults>>
       /\ (VerifierIdle /\ vVars' # vVars /\ Weekend) =>
             /\ vpc' = "skipped"
             /\ UNCHANGED <<logs, mails, verifyLog, results>>
       /\ Weekend => UNCHANGED <<logs, mails, verifyLog>>]_vars

\* A Sunday in the default zone (Monday in UTC) on which both jobs have returned at
\* once, beside the records and the e-mails of the Friday before.
C26_Witness ==
    /\ Weekend
    /\ clock = Monday20240115 * HoursPerDay + 2
    /\ cpc = "skipped" /\ vpc = "skipped"
    /\ \E i \in 1..Len(logs) : IsSet(logs[i].checkin_sent_at)
    /\ \E i \in 1..Len(logs) : IsSet(logs[i].summary_sent_at)
    /\ cResults.emails_sent >= 1

====
